---- MODULE Spec2Model ----
(***************************************************************************)
(* cmdtime (src/src/main.rs): launch a command suspended, put it in a job  *)
(* object, resume it, wait on the job's completion port until the job has  *)
(* no active process, read the job's accounting and print three durations. *)
(*                                                                         *)
(* The program is one thread (main); the launched process tree and the     *)
(* kernel's job object run concurrently with it.  Strings are sequences of *)
(* one-character strings so that starts_with, chars().skip(1) and join     *)
(* are computed as main.rs computes them.                                  *)
(***************************************************************************)
EXTENDS Integers, Sequences, FiniteSets, TLC

\* ---------------------------------------------------------------- bounds
MaxArgs == 3         \* longest argument list given to the program
MaxOsEvents == 2     \* process creations by the launched tree, accounting ticks it
                     \* consumes and foreign packets on the port, in one run

\* ------------------------------------------------------ program constants
EXIT_ERROR == 2
NoStatus == -1       \* the program has not called exit and main has not returned

NULL == 0
HJob == 1            \* value of the handle CreateJobObjectW returned
OtherKey == 2        \* a completion key that is not the job handle

JOB_OBJECT_MSG_END_OF_JOB_TIME == 1
JOB_OBJECT_MSG_ACTIVE_PROCESS_ZERO == 4
JOB_OBJECT_MSG_NEW_PROCESS == 6
JOB_OBJECT_MSG_EXIT_PROCESS == 7

Handles == {"process", "thread", "job", "iocp"}

Root == 0
Procs == 0 .. MaxOsEvents

\* --------------------------------------------------------------- strings
Dash == "-"

T_o == <<"-", "o">>
T_output == <<"-", "-", "o", "u", "t", "p", "u", "t">>
T_help == <<"-", "-", "h", "e", "l", "p">>
T_version == <<"-", "-", "v", "e", "r", "s", "i", "o", "n">>
T_append == <<"-", "-", "a", "p", "p", "e", "n", "d">>
T_bogus == <<"-", "-", "x">>
T_a == <<"-", "a">>
T_aa == <<"-", "a", "a">>
T_aV == <<"-", "a", "V">>
T_V == <<"-", "V">>
T_x == <<"-", "x">>
T_dash == <<"-">>
T_cmd == <<"c">>
T_f == <<"f">>

Tokens ==
    {T_o, T_output, T_help, T_version, T_append, T_bogus, T_a, T_aa, T_aV,
     T_V, T_x, T_dash, T_cmd, T_f}

RECURSIVE SeqsUpTo(_, _)
SeqsUpTo(S, n) ==
    IF n = 0 THEN {<<>>}
    ELSE LET shorter == SeqsUpTo(S, n - 1)
         IN  shorter \cup {Append(s, x) : s \in {t \in shorter : Len(t) = n - 1}, x \in S}

ArgLists == SeqsUpTo(Tokens, MaxArgs)

\* str::starts_with
StartsWith(s, prefix) ==
    /\ Len(s) >= Len(prefix)
    /\ SubSeq(s, 1, Len(prefix)) = prefix

\* [String]::join(" ")
RECURSIVE Join(_)
Join(toks) ==
    IF toks = <<>> THEN <<>>
    ELSE IF Len(toks) = 1 THEN Head(toks)
    ELSE Head(toks) \o <<" ">> \o Join(Tail(toks))

\* Iterator::next on the Peekable argument iterator: the rest after one item
\* was taken (an exhausted iterator stays exhausted).
IterNext(args) == IF args = <<>> THEN <<>> ELSE Tail(args)

\* ------------------------------------------------------- option parsing
NoFile == <<>>       \* Opts.ofile = None; Some(f) is <<f>>

DefaultOpts == [ofile |-> NoFile, append |-> FALSE]

\* Result of one parse_arg call: what it returned or how it left the program.
\*   kind "true" / "false": the bool returned; "usage0": usage(0);
\*   "version": show_version(); "invalid": invalid_opt; "missing": missing_arg
Outcome(kind, opts, args) == [kind |-> kind, opts |-> opts, args |-> args]

parse_output(opts, args) ==
    LET rest == IterNext(args)
    IN  IF rest = <<>>
        THEN Outcome("missing", opts, rest)
        ELSE Outcome("true", [opts EXCEPT !.ofile = <<Head(rest)>>], Tail(rest))

parse_append(opts, args) ==
    Outcome("true", [opts EXCEPT !.append = TRUE], IterNext(args))

\* the for loop over arg.chars().skip(1) of parse_arg
RECURSIVE parse_flags(_, _, _)
parse_flags(chars, opts, args) ==
    IF chars = <<>> THEN Outcome("true", opts, args)
    ELSE IF Head(chars) = "V" THEN Outcome("version", opts, args)
    ELSE IF Head(chars) = "a"
         THEN LET r == parse_append(opts, args)
              IN  parse_flags(Tail(chars), r.opts, r.args)
    ELSE Outcome("invalid", opts, args)

parse_arg(opts, args) ==
    IF args = <<>> THEN Outcome("false", opts, args)
    ELSE LET arg == Head(args)
         IN  IF StartsWith(arg, <<Dash, Dash>>)
             THEN IF arg = T_output THEN parse_output(opts, args)
                  ELSE IF arg = T_help THEN Outcome("usage0", opts, args)
                  ELSE IF arg = T_version THEN Outcome("version", opts, args)
                  ELSE IF arg = T_append THEN parse_append(opts, args)
                  ELSE Outcome("invalid", opts, args)
             ELSE IF StartsWith(arg, <<Dash>>)
             THEN IF arg = T_o THEN parse_output(opts, args)
                  ELSE parse_flags(Tail(arg), opts, args)
             ELSE Outcome("false", opts, args)

\* ----------------------------------------------------------------- state
VARIABLES
    argv,        \* the arguments the program was started with (std::env::args().skip(1));
                 \* recorded until the command line is handed to CreateProcessW
    args,        \* main: the argument iterator, what is left of it
    opts,        \* main: Opts { ofile, append }
    w,           \* main: the writer; "unset", "stderr" or "file"
    cmdline,     \* main: args.join(" "), until it is handed to CreateProcessW
    pc,          \* the statement of main that runs next
    status,      \* exit status of the program, NoStatus while it runs
    diag,        \* what the program printed last on standard error
    lines,       \* labels of the timing lines written to the writer
    acquired,    \* kernel handles the program obtained
    closes,      \* per handle, the number of CloseHandle calls on it
    completion,  \* wait_for_job_completion: completion_key, completion_code
    job_times,   \* main: Times read by get_job_times, <<>> before
    resumes,     \* number of ResumeThread calls issued
    failed,      \* the OS calls that reported failure to the program
    steps,       \* the steps of the run sequence main has taken, in order
    proc,        \* OS: state of each process of the launched tree
    members,     \* OS: processes assigned to the job
    assoc,       \* OS: the job posts its messages to the completion port
    queue,       \* OS: packets queued on the completion port
    cpu,         \* OS: per process, ticks consumed in user and kernel mode
    acct,        \* OS: the job's basic accounting (TotalUserTime, TotalKernelTime)
    spurious     \* OS: number of packets posted that are not the job's own

progVars ==
    <<argv, args, opts, w, cmdline, pc, status, diag, lines, acquired, closes,
      completion, job_times, resumes, failed, steps>>
osVars == <<proc, members, assoc, queue, cpu, acct, spurious>>
vars == <<progVars, osVars>>

Zeroed == [user |-> 0, kernel |-> 0]

Init ==
    /\ argv \in ArgLists
    /\ args = argv
    /\ opts = DefaultOpts
    /\ w = "unset"
    /\ cmdline = <<>>
    /\ pc = "parse"
    /\ status = NoStatus
    /\ diag = "none"
    /\ lines = <<>>
    /\ acquired = {}
    /\ closes = [h \in Handles |-> 0]
    /\ completion = [key |-> NULL, code |-> 0]
    /\ job_times = <<>>
    /\ resumes = 0
    /\ failed = {}
    /\ steps = <<>>
    /\ proc = [p \in Procs |-> "none"]
    /\ members = {}
    /\ assoc = FALSE
    /\ queue = <<>>
    /\ cpu = [p \in Procs |-> Zeroed]
    /\ acct = Zeroed
    /\ spurious = 0

\* ------------------------------------------------------- leaving the program
\* std::process::exit(code): the process ends at once, no destructor runs.
Exit(code, msg) ==
    /\ pc' = "exited"
    /\ status' = code
    /\ diag' = msg

\* a win32_assert that prints the diagnostic and returns to its caller
FatalPrintOnly(caller_name) ==
    /\ diag' = caller_name
    /\ UNCHANGED <<pc, status>>

\* win32_assert / win32_assert_not_null on a failed call, die_io_error
Fatal(caller_name) == Exit(EXIT_ERROR, caller_name)

\* the call named `call` reported failure to the program
Reports(call) == failed' = failed \cup {call}

\* main has taken the step `e` of the run sequence
Log(e) == steps' = Append(steps, e)

\* Drop for ProcessDescr / ThreadDescr
CloseHandle(h) == closes' = [closes EXCEPT ![h] = @ + 1]

\* -------------------------------------------------------------- main, parsing
\* one iteration of `while parse_arg(&mut opts, &mut args) {}`
ParseArg ==
    /\ pc = "parse"
    /\ UNCHANGED steps
    /\ LET r == parse_arg(opts, args)
       IN  /\ opts' = r.opts
           /\ args' = r.args
           /\ CASE r.kind = "true" -> UNCHANGED <<pc, status, diag>>
                [] r.kind = "false" -> pc' = "open" /\ UNCHANGED <<status, diag>>
                [] r.kind = "usage0" -> Exit(0, "usage")
                [] r.kind = "version" -> Exit(0, "version")
                [] r.kind = "invalid" -> Exit(EXIT_ERROR, "invalid option")
                [] r.kind = "missing" -> Exit(EXIT_ERROR, "option requires an argument")
    /\ UNCHANGED <<argv, w, cmdline, lines, acquired, closes, completion, job_times,
                   resumes, failed, osVars>>

\* let mut w = match opts.ofile { Some(ofile) => open_file(.., opts.append), None => stderr }
\* (opts.ofile is moved out of opts)
OpenOutput ==
    /\ pc = "open"
    /\ UNCHANGED steps
    /\ IF opts.ofile = NoFile
       THEN /\ w' = "stderr"
            /\ pc' = "collect"
            /\ UNCHANGED <<status, diag, failed>>
       ELSE \E ok \in BOOLEAN :
               IF ok
               THEN /\ w' = "file"
                    /\ pc' = "collect"
                    /\ UNCHANGED <<status, diag, failed>>
               ELSE /\ Fatal("failed to open file")
                    /\ Reports("open_file")
                    /\ UNCHANGED w
    /\ opts' = [opts EXCEPT !.ofile = NoFile]
    /\ UNCHANGED <<argv, args, cmdline, lines, acquired, closes, completion, job_times,
                   resumes, osVars>>

\* let args: Vec<_> = args.collect(); if args.is_empty() { usage(EXIT_ERROR) }
\* let args = args.join(" ");
CollectArgs ==
    /\ pc = "collect"
    /\ UNCHANGED steps
    /\ args' = <<>>
    /\ IF args = <<>>
       THEN Exit(EXIT_ERROR, "usage") /\ UNCHANGED cmdline
       ELSE /\ cmdline' = Join(args)
            /\ pc' = "freq"
            /\ UNCHANGED <<status, diag>>
    /\ UNCHANGED <<argv, opts, w, lines, acquired, closes, completion, job_times,
                   resumes, failed, osVars>>

\* ------------------------------------------------------ main, the run sequence
progRest == <<argv, args, opts, w, cmdline, lines, completion, job_times, resumes>>

\* let freq = win32_get_perf_freq();
GetPerfFreq ==
    /\ pc = "freq"
    /\ UNCHANGED steps
    /\ \E ok \in BOOLEAN :
          IF ok
          THEN pc' = "create_job" /\ UNCHANGED <<status, diag, failed>>
          ELSE Fatal("QueryPerformanceFrequency") /\ Reports("QueryPerformanceFrequency")
    /\ UNCHANGED <<progRest, acquired, closes, osVars>>

\* win32_create_job: hjob = CreateJobObjectW(..); win32_assert_not_null(hjob, ..)
CreateJobObject ==
    /\ pc = "create_job"
    /\ UNCHANGED steps
    /\ \E ok \in BOOLEAN :
          IF ok
          THEN /\ acquired' = acquired \cup {"job"}
               /\ pc' = "create_iocp"
               /\ UNCHANGED <<status, diag, failed>>
          ELSE /\ Fatal("CreateJobObjectW")
               /\ Reports("CreateJobObjectW")
               /\ UNCHANGED acquired
    /\ UNCHANGED <<progRest, closes, osVars>>

\* win32_create_job: hiocp = CreateIoCompletionPort(..); win32_assert_not_null(hiocp, ..)
CreateIoCompletionPort ==
    /\ pc = "create_iocp"
    /\ UNCHANGED steps
    /\ \E ok \in BOOLEAN :
          IF ok
          THEN /\ acquired' = acquired \cup {"iocp"}
               /\ pc' = "associate"
               /\ UNCHANGED <<status, diag, failed>>
          ELSE /\ Fatal("CreateIoCompletionPort")
               /\ Reports("CreateIoCompletionPort")
               /\ UNCHANGED acquired
    /\ UNCHANGED <<progRest, closes, osVars>>

\* win32_create_job without the association of the port with the job
SetInformationJobObjectNoPort ==
    /\ pc = "associate"
    /\ UNCHANGED steps
    /\ pc' = "create_process"
    /\ UNCHANGED <<status, diag, failed, assoc>>
    /\ UNCHANGED <<progRest, acquired, closes, proc, members, queue, cpu, acct, spurious>>

\* win32_create_job: SetInformationJobObject(hjob, ..AssociateCompletionPort.., port)
\* with port.CompletionKey = hjob, port.CompletionPort = hiocp
SetInformationJobObject ==
    /\ pc = "associate"
    /\ UNCHANGED steps
    /\ \E ok \in BOOLEAN :
          IF ok
          THEN /\ assoc' = TRUE
               /\ pc' = "create_process"
               /\ UNCHANGED <<status, diag, failed>>
          ELSE /\ Fatal("SetInformationJobObject")
               /\ Reports("SetInformationJobObject")
               /\ UNCHANGED assoc
    /\ UNCHANGED <<progRest, acquired, closes, proc, members, queue, cpu, acct, spurious>>

\* let (process, thread) = win32_create_suspended_process(&args);
CreateSuspendedProcess ==
    /\ pc = "create_process"
    /\ UNCHANGED steps
    /\ \E ok \in BOOLEAN :
          IF ok
          THEN /\ proc' = [proc EXCEPT ![Root] = "suspended"]
               /\ acquired' = acquired \cup {"process", "thread"}
               /\ pc' = "attach"
               /\ UNCHANGED <<status, diag, failed>>
          ELSE /\ Fatal("CreateProcessW")
               /\ Reports("CreateProcessW")
               /\ UNCHANGED <<proc, acquired>>
    /\ argv' = <<>>
    /\ cmdline' = <<>>
    /\ UNCHANGED <<args, opts, w, lines, completion, job_times, resumes, closes,
                   members, assoc, queue, cpu, acct, spurious>>

\* a packet the job posts to its completion port
JobMsg(code) == [key |-> HJob, code |-> code]

\* the job posts `codes` in order, if a port is associated with it
Post(q, codes) ==
    IF assoc THEN q \o [i \in 1 .. Len(codes) |-> JobMsg(codes[i])] ELSE q

\* the attach without its win32_assert: main goes on whatever the call returned
AttachProcessToJobUnchecked ==
    /\ pc = "attach"
    /\ \E ok \in BOOLEAN :
          IF ok
          THEN /\ members' = members \cup {Root}
               /\ queue' = Post(queue, <<JOB_OBJECT_MSG_NEW_PROCESS>>)
               /\ Log("attach")
               /\ UNCHANGED failed
          ELSE /\ Reports("AssignProcessToJobObject")
               /\ UNCHANGED <<members, queue, steps>>
    /\ pc' = "drop_process"
    /\ UNCHANGED <<status, diag>>
    /\ UNCHANGED <<progRest, acquired, closes, proc, assoc, cpu, acct, spurious>>

\* win32_attach_process_to_job(&process, &job);
AttachProcessToJob ==
    /\ pc = "attach"
    /\ \E ok \in BOOLEAN :
          IF ok
          THEN /\ members' = members \cup {Root}
               /\ queue' = Post(queue, <<JOB_OBJECT_MSG_NEW_PROCESS>>)
               /\ Log("attach")
               /\ pc' = "drop_process"
               /\ UNCHANGED <<status, diag, failed>>
          ELSE /\ Fatal("AssignProcessToJobObject")
               /\ Reports("AssignProcessToJobObject")
               /\ UNCHANGED <<members, queue, steps>>
    /\ UNCHANGED <<progRest, acquired, closes, proc, assoc, cpu, acct, spurious>>

\* main without the start sample: drop(process) is followed by the resume
DropProcessThenResume ==
    /\ pc = "drop_process"
    /\ Log("close_process")
    /\ CloseHandle("process")
    /\ pc' = "resume"
    /\ UNCHANGED <<progRest, status, diag, acquired, failed, osVars>>

\* main without drop(process): the descriptor lives to the end of main
DropProcessKept ==
    /\ pc = "drop_process"
    /\ pc' = "wall0"
    /\ UNCHANGED <<progRest, status, diag, acquired, closes, failed, steps, osVars>>

\* drop(process);
DropProcess ==
    /\ pc = "drop_process"
    /\ Log("close_process")
    /\ CloseHandle("process")
    /\ pc' = "wall0"
    /\ UNCHANGED <<progRest, status, diag, acquired, failed, osVars>>

\* let wall0 = win32_get_perf_counter();   (the caller name passed to
\* win32_assert is "QueryPerformanceFrequency", main.rs line 116)
GetPerfCounter0 ==
    /\ pc = "wall0"
    /\ \E ok \in BOOLEAN :
          IF ok
          THEN pc' = "resume" /\ Log("wall0") /\ UNCHANGED <<status, diag, failed>>
          ELSE /\ Fatal("QueryPerformanceFrequency")
               /\ Reports("QueryPerformanceCounter")
               /\ UNCHANGED steps
    /\ UNCHANGED <<progRest, acquired, closes, osVars>>

\* thread.resume();   the value ResumeThread returns is not looked at
ResumeThread ==
    /\ pc = "resume"
    /\ Log("resume")
    /\ resumes' = resumes + 1
    /\ \/ /\ proc' = [proc EXCEPT ![Root] = IF @ = "suspended" THEN "running" ELSE @]
          /\ UNCHANGED failed
       \/ /\ Reports("ResumeThread")
          /\ UNCHANGED proc
    /\ pc' = "drop_thread"
    /\ UNCHANGED <<argv, args, opts, w, cmdline, lines, completion, job_times,
                   status, diag, acquired, closes,
                   members, assoc, queue, cpu, acct, spurious>>

\* main without the call of wait_for_job_completion
DropThreadNoWait ==
    /\ pc = "drop_thread"
    /\ Log("close_thread")
    /\ CloseHandle("thread")
    /\ pc' = "wall1"
    /\ UNCHANGED <<progRest, status, diag, acquired, failed, osVars>>

\* main without drop(thread): the descriptor lives to the end of main
DropThreadKept ==
    /\ pc = "drop_thread"
    /\ pc' = "wait"
    /\ UNCHANGED <<progRest, status, diag, acquired, closes, failed, steps, osVars>>

\* drop(thread);
DropThread ==
    /\ pc = "drop_thread"
    /\ Log("close_thread")
    /\ CloseHandle("thread")
    /\ pc' = "wait"
    /\ UNCHANGED <<progRest, status, diag, acquired, failed, osVars>>

\* ------------------------------------------------- wait_for_job_completion
\* the loop condition without the comparison of completion_key
LoopContinuesAnyKey(ret, key, code) ==
    ret /\ ~(code = JOB_OBJECT_MSG_ACTIVE_PROCESS_ZERO)

\* the condition of the while loop: ret is what GetQueuedCompletionStatus returned
LoopContinues(ret, key, code) ==
    ret /\ ~(key = HJob /\ code = JOB_OBJECT_MSG_ACTIVE_PROCESS_ZERO)

\* the step `e` is among the steps taken
Entered(e) == \E i \in 1 .. Len(steps) : steps[i] = e

\* one iteration: GetQueuedCompletionStatus(hiocp, .., INFINITE) either hands
\* over the oldest packet (blocking while there is none) or returns FALSE
WaitForJobCompletion ==
    /\ pc = "wait"
    /\ \E ret \in BOOLEAN :
          IF ret
          THEN /\ queue # <<>>
               /\ completion' = Head(queue)
               /\ queue' = Tail(queue)
               /\ pc' = IF LoopContinues(ret, Head(queue).key, Head(queue).code)
                        THEN "wait" ELSE "wall1"
               /\ UNCHANGED failed
          ELSE /\ Reports("GetQueuedCompletionStatus")
               /\ pc' = IF LoopContinues(ret, completion.key, completion.code)
                        THEN "wait" ELSE "wall1"
               /\ UNCHANGED <<completion, queue>>
    /\ steps' = steps \o (IF Entered("wait") THEN <<>> ELSE <<"wait">>)
                      \o (IF pc' = "wait" THEN <<>> ELSE <<"wait_return">>)
    /\ UNCHANGED <<argv, args, opts, w, cmdline, lines, job_times, resumes,
                   status, diag, acquired, closes,
                   proc, members, assoc, cpu, acct, spurious>>

\* let wall1 = win32_get_perf_counter();
GetPerfCounter1 ==
    /\ pc = "wall1"
    /\ \E ok \in BOOLEAN :
          IF ok
          THEN pc' = "query" /\ Log("wall1") /\ UNCHANGED <<status, diag, failed>>
          ELSE /\ Fatal("QueryPerformanceFrequency")
               /\ Reports("QueryPerformanceCounter")
               /\ UNCHANGED steps
    /\ UNCHANGED <<progRest, acquired, closes, osVars>>

\* ----------------------------------------------------------- get_job_times
AccountingTicksPerSecond == 10000000

\* to_seconds: value as f64 / 10_000_000.0, kept as the exact quotient
to_seconds(value) == [num |-> value, den |-> AccountingTicksPerSecond]

\* times of the launched process alone (a per-process query), not the job's
TimesOfRootOnly(info) ==
    [user |-> to_seconds(cpu[Root].user), kernel |-> to_seconds(cpu[Root].kernel)]

\* the Times built from what the query wrote to info
Times(info) ==
    [user |-> to_seconds(info.user), kernel |-> to_seconds(info.kernel)]

\* let job_times = job.get_job_times();
GetJobTimes ==
    /\ pc = "query"
    /\ Log("query")
    /\ \E ok \in BOOLEAN :
          IF ok
          THEN /\ job_times' = Times(acct)
               /\ pc' = "print_real"
               /\ UNCHANGED <<status, diag, failed>>
          ELSE /\ Fatal("QueryInformationJobObject")
               /\ Reports("QueryInformationJobObject")
               /\ UNCHANGED job_times
    /\ UNCHANGED <<argv, args, opts, w, cmdline, lines, completion, resumes,
                   acquired, closes, osVars>>

\* ----------------------------------------------------------- print_duration
\* print_duration(&mut w, name, ..): writeln! or die_io_error("failed to write")
print_duration(at, name, next) ==
    /\ pc = at
    /\ UNCHANGED steps
    /\ \E ok \in BOOLEAN :
          IF ok
          THEN /\ lines' = Append(lines, name)
               /\ pc' = next
               /\ UNCHANGED <<status, diag, failed>>
          ELSE /\ Fatal("failed to write")
               /\ Reports("write")
               /\ UNCHANGED lines
    /\ UNCHANGED <<argv, args, opts, w, cmdline, completion, job_times, resumes,
                   acquired, closes, osVars>>

PrintReal == print_duration("print_real", "real", "print_user")
PrintUser == print_duration("print_user", "user", "print_sys")
PrintSys == print_duration("print_sys", "sys", "return")

\* main returns: its locals are dropped (JobDescr has no Drop impl, the
\* process and thread descriptors were dropped before) and the status is 0
ReturnFromMain ==
    /\ pc = "return"
    /\ UNCHANGED steps
    /\ pc' = "exited"
    /\ status' = 0
    /\ UNCHANGED <<progRest, diag, acquired, closes, failed, osVars>>

\* ------------------------------------------- the process tree and the job
Active(p) == proc[p] \in {"suspended", "running"}

ActiveMembers(ps, ms) == {p \in ms : ps[p] \in {"suspended", "running"}}

\* ticks consumed in `mode` by the processes 0 .. n
RECURSIVE SumTicks(_, _, _)
SumTicks(c, mode, n) ==
    IF n < Root THEN 0 ELSE SumTicks(c, mode, n - 1) + c[n][mode]

TotalTicks(c) == SumTicks(c, "user", MaxOsEvents) + SumTicks(c, "kernel", MaxOsEvents)

\* what the process tree and the port's other users did so far
OsEvents ==
    Cardinality({p \in Procs \ {Root} : proc[p] # "none"}) + TotalTicks(cpu) + spurious

Running == status = NoStatus

\* a running process of the tree creates a process; the child of a member of
\* the job is a member of the job (the job sets no breakaway limit)
OsSpawn(p, c) ==
    /\ Running
    /\ proc[p] = "running"
    /\ OsEvents < MaxOsEvents
    /\ c # Root /\ proc[c] = "none"
    /\ \A d \in Procs : (d # Root /\ d < c) => proc[d] # "none"
    /\ proc' = [proc EXCEPT ![c] = "running"]
    /\ IF p \in members
       THEN /\ members' = members \cup {c}
            /\ queue' = Post(queue, <<JOB_OBJECT_MSG_NEW_PROCESS>>)
       ELSE UNCHANGED <<members, queue>>
    /\ UNCHANGED <<progVars, assoc, cpu, acct, spurious>>

\* a process of the tree exits; the job reports it, and reports that no
\* active process is left when this was the last one
OsExit(p) ==
    /\ Running
    /\ proc[p] = "running"
    /\ proc' = [proc EXCEPT ![p] = "exited"]
    /\ IF p \in members
       THEN queue' = Post(queue,
                IF ActiveMembers(proc', members) = {}
                THEN <<JOB_OBJECT_MSG_EXIT_PROCESS, JOB_OBJECT_MSG_ACTIVE_PROCESS_ZERO>>
                ELSE <<JOB_OBJECT_MSG_EXIT_PROCESS>>)
       ELSE UNCHANGED queue
    /\ UNCHANGED <<progVars, members, assoc, cpu, acct, spurious>>

\* a running process consumes one accounting tick in user or kernel mode;
\* the job accumulates the time of its members
OsTick(p, mode) ==
    /\ Running
    /\ proc[p] = "running"
    /\ OsEvents < MaxOsEvents
    /\ cpu' = [cpu EXCEPT ![p][mode] = @ + 1]
    /\ acct' = IF p \in members THEN [acct EXCEPT ![mode] = @ + 1] ELSE acct
    /\ UNCHANGED <<progVars, proc, members, assoc, queue, spurious>>

\* packets on the port that are not the job's "no active process" message
SpuriousPackets ==
    { [key |-> HJob, code |-> JOB_OBJECT_MSG_END_OF_JOB_TIME],
      [key |-> OtherKey, code |-> JOB_OBJECT_MSG_ACTIVE_PROCESS_ZERO] }

OsPostSpurious(pkt) ==
    /\ Running
    /\ "iocp" \in acquired
    /\ OsEvents < MaxOsEvents
    /\ queue' = Append(queue, pkt)
    /\ spurious' = spurious + 1
    /\ UNCHANGED <<progVars, proc, members, assoc, cpu, acct>>

\* ------------------------------------------------------------ specification
Next ==
    \/ ParseArg
    \/ OpenOutput
    \/ CollectArgs
    \/ GetPerfFreq
    \/ CreateJobObject
    \/ CreateIoCompletionPort
    \/ SetInformationJobObject
    \/ CreateSuspendedProcess
    \/ AttachProcessToJob
    \/ DropProcess
    \/ GetPerfCounter0
    \/ ResumeThread
    \/ DropThread
    \/ WaitForJobCompletion
    \/ GetPerfCounter1
    \/ GetJobTimes
    \/ PrintReal
    \/ PrintUser
    \/ PrintSys
    \/ ReturnFromMain
    \/ \E p \in Procs, c \in Procs : OsSpawn(p, c)
    \/ \E p \in Procs : OsExit(p)
    \/ \E p \in Procs, mode \in {"user", "kernel"} : OsTick(p, mode)
    \/ \E pkt \in SpuriousPackets : OsPostSpurious(pkt)

Spec == Init /\ [][Next]_vars

\* the steps of the program's only thread
MainStep ==
    \/ ParseArg
    \/ OpenOutput
    \/ CollectArgs
    \/ GetPerfFreq
    \/ CreateJobObject
    \/ CreateIoCompletionPort
    \/ SetInformationJobObject
    \/ CreateSuspendedProcess
    \/ AttachProcessToJob
    \/ DropProcess
    \/ GetPerfCounter0
    \/ ResumeThread
    \/ DropThread
    \/ WaitForJobCompletion
    \/ GetPerfCounter1
    \/ GetJobTimes
    \/ PrintReal
    \/ PrintUser
    \/ PrintSys
    \/ ReturnFromMain

\* the program's thread keeps being scheduled, and every process of the
\* launched tree that runs exits at some time
LiveSpec ==
    /\ Init /\ [][Next]_vars
    /\ WF_vars(MainStep)
    /\ \A p \in Procs : WF_vars(OsExit(p))

\* ------------------------------------------------------------------ claims
\* main is past the call of wait_for_job_completion and has not left the program
AfterWait == {"wall1", "query", "print_real", "print_user", "print_sys", "return"}

ZeroMsg == JobMsg(JOB_OBJECT_MSG_ACTIVE_PROCESS_ZERO)

\* C1: whenever ResumeThread has been issued, AssignProcessToJobObject has
\* succeeded for the launched process before (it is a member of the job).
C1_AttachBeforeResume ==
    resumes > 0 => Root \in members

C1_Witness ==
    /\ resumes = 1
    /\ Root \in members
    /\ proc[Root] = "running"

\* C2: once wait_for_job_completion has returned, no process that became a
\* member of the job is still active.
C2_WaitCoversWholeTree ==
    pc \in AfterWait => \A p \in members : ~Active(p)

\* C3: wait_for_job_completion has returned only if the packet dequeued last
\* has the job handle as key and ACTIVE_PROCESS_ZERO as code.
C3_ReturnsOnlyOnZero ==
    pc \in AfterWait => completion = ZeroMsg

\* C4: a step of the wait that dequeues a packet other than (job handle,
\* ACTIVE_PROCESS_ZERO) stores it, drops it and stays in the loop.
C4_OthersDiscarded ==
    [][ ( /\ pc = "wait"
          /\ queue # <<>>
          /\ queue' = Tail(queue)
          /\ Head(queue) # ZeroMsg )
        => (pc' = "wait" /\ completion' = Head(queue)) ]_vars

\* a packet with the ACTIVE_PROCESS_ZERO code and a foreign key was dequeued
\* and the wait goes on
C4_Witness ==
    /\ pc = "wait"
    /\ completion = [key |-> OtherKey, code |-> JOB_OBJECT_MSG_ACTIVE_PROCESS_ZERO]

TreeTicks(mode) == SumTicks(cpu, mode, MaxOsEvents)

\* C5: every process of the tree that runs is a member of the job, the job's
\* accounting is the sum over the launched process and its descendants, and
\* get_job_times hands main exactly these totals.
C5_TreeAccounted ==
    /\ [](\A p \in Procs : proc[p] = "running" => p \in members)
    /\ [](/\ acct.user = TreeTicks("user")
          /\ acct.kernel = TreeTicks("kernel"))
    /\ [][ (pc = "query" /\ pc' = "print_real")
           => job_times' = [user |-> to_seconds(TreeTicks("user")),
                            kernel |-> to_seconds(TreeTicks("kernel"))] ]_vars

\* the times read after a regular end of the wait hold a tick that a
\* descendant consumed, not the launched process
C5_Witness ==
    /\ job_times # <<>>
    /\ completion = ZeroMsg
    /\ job_times.user.num + job_times.kernel.num
         > cpu[Root].user + cpu[Root].kernel

\* C6: a run in which no call failed, that wrote the three lines and ended
\* with status 0, has closed each of the four handles exactly once.
C6_AllReleasedOnSuccess ==
    (pc = "exited" /\ status = 0 /\ Len(lines) = 3 /\ failed = {})
        => \A h \in Handles : h \in acquired /\ closes[h] = 1

\* C7: a run that ended in a fatal failure has closed every handle it had
\* acquired.
C7_ReleasedOnFatal ==
    (pc = "exited" /\ status = EXIT_ERROR)
        => \A h \in acquired : closes[h] >= 1

\* the OS calls of the run sequence named by C8
RunSequenceCalls ==
    {"QueryPerformanceFrequency", "CreateJobObjectW", "CreateIoCompletionPort",
     "SetInformationJobObject", "CreateProcessW", "AssignProcessToJobObject",
     "QueryPerformanceCounter", "ResumeThread", "GetQueuedCompletionStatus",
     "QueryInformationJobObject"}

\* C8: once an OS call of the run sequence has reported failure, the program
\* has printed a diagnostic and ended with status 2, with no timing line.
C8_NoFailureIgnored ==
    (failed \cap RunSequenceCalls # {})
        => (pc = "exited" /\ status = EXIT_ERROR /\ diag # "none" /\ lines = <<>>)

\* C9: a run that ended with a non-zero status wrote no timing line; a run
\* that ended wrote 0 or 3 lines.
C9_NoPartialOutput ==
    pc = "exited" =>
        /\ Len(lines) \in {0, 3}
        /\ (status # 0 => lines = <<>>)

\* ---- the argument list read as USAGE documents it:
\*      [-aV] [-o file] [--append] [--output file] [--help] [--version] command [arg...]
\* a group of short flags stands for its flags only.
RECURSIVE DocFlags(_)
DocFlags(chars) ==
    IF chars = <<>> THEN "ok"
    ELSE IF Head(chars) = "V" THEN "version"
    ELSE IF Head(chars) = "a" THEN DocFlags(Tail(chars))
    ELSE "invalid"

RECURSIVE DocParse(_)
DocParse(a) ==
    IF a = <<>> THEN [kind |-> "nocmd", cmd |-> <<>>]
    ELSE LET arg == Head(a)
         IN  IF ~StartsWith(arg, <<Dash>>) THEN [kind |-> "run", cmd |-> a]
             ELSE IF arg \in {T_o, T_output}
                  THEN IF Len(a) < 2 THEN [kind |-> "missing", cmd |-> <<>>]
                       ELSE DocParse(Tail(Tail(a)))
             ELSE IF arg = T_help THEN [kind |-> "help", cmd |-> <<>>]
             ELSE IF arg = T_version THEN [kind |-> "version", cmd |-> <<>>]
             ELSE IF arg = T_append THEN DocParse(Tail(a))
             ELSE IF StartsWith(arg, <<Dash, Dash>>) THEN [kind |-> "invalid", cmd |-> <<>>]
             ELSE LET f == DocFlags(Tail(arg))
                  IN  IF f = "ok" THEN DocParse(Tail(a))
                      ELSE [kind |-> f, cmd |-> <<>>]

UsageError(a) == DocParse(a).kind \in {"invalid", "missing", "nocmd"}

\* the launch has been attempted: argv is no longer recorded
LaunchAttempted == proc[Root] # "none" \/ "CreateProcessW" \in failed

\* C10: the exit status is 0 or 2; it is 0 only after three timing lines or
\* for --help / --version / -V; an argument list with a usage error (unknown
\* option, -o / --output without argument, no command) ends with status 2 and
\* neither a job object nor a process is created for it.
C10_ExitStatus ==
    /\ pc = "exited" => status \in {0, EXIT_ERROR}
    /\ (pc = "exited" /\ status = 0)
          => (Len(lines) = 3 \/ diag \in {"usage", "version"})
    /\ (~LaunchAttempted /\ UsageError(argv))
          => /\ acquired = {}
             /\ pc = "exited" => status = EXIT_ERROR

\* ---- the order of the steps main has taken
\* position of the first occurrence of `e` among the steps, 0 if there is none
Pos(e) ==
    IF Entered(e)
    THEN CHOOSE i \in 1 .. Len(steps) :
            steps[i] = e /\ \A j \in 1 .. (i - 1) : steps[j] # e
    ELSE 0

\* number of occurrences of `e` among the steps
Count(e) == Cardinality({i \in 1 .. Len(steps) : steps[i] = e})

\* `a` was taken, and before `b` if `b` was taken
Before(a, b) == Entered(a) /\ (Entered(b) => Pos(a) < Pos(b))

IsPrefix(a, b) == Len(a) <= Len(b) /\ a = SubSeq(b, 1, Len(a))

\* the OS calls whose result main checks with win32_assert / win32_assert_not_null
CheckedCalls == RunSequenceCalls \ {"ResumeThread", "GetQueuedCompletionStatus"}

\* C11: once a checked OS call has failed the program has ended with status 2
\* and takes no further step; after a failed CreateProcessW there is no
\* process, no attach, sample, resume, wait, accounting query or timing line.
C11_FailureAborts ==
    /\ []((failed \cap CheckedCalls # {}) => (pc = "exited" /\ status = EXIT_ERROR))
    /\ []("CreateProcessW" \in failed =>
            /\ proc[Root] = "none" /\ members = {}
            /\ steps = <<>> /\ resumes = 0
            /\ job_times = <<>> /\ lines = <<>>)
    /\ [][pc = "exited" => UNCHANGED progVars]_vars

C11_Witness ==
    /\ "CreateProcessW" \in failed
    /\ pc = "exited"
    /\ diag = "CreateProcessW"

\* C12: the accounting query is issued only after wait_for_job_completion
\* has returned and only on a job handle that is open.
C12_QueryAfterWaitOnOpenJob ==
    /\ pc = "query" => /\ Entered("wait_return")
                      /\ "job" \in acquired /\ closes["job"] = 0
    /\ Entered("query") => /\ Before("wait_return", "query")
                           /\ Count("query") = 1

C12_Witness ==
    /\ failed = {}
    /\ Entered("query")
    /\ job_times # <<>>
    /\ closes["job"] = 0

RunOrder == <<"wall0", "resume", "wait", "wait_return", "wall1", "query">>

InRunOrder(e) == \E i \in 1 .. Len(RunOrder) : RunOrder[i] = e

C14_HandleLifetimes ==
    /\ resumes <= 1 /\ Count("resume") = resumes /\ Count("attach") <= 1
    /\ (pc = "exited" /\ status = 0 /\ Len(lines) = 3) => resumes = 1
    /\ closes["thread"] <= 1 /\ closes["process"] <= 1
    /\ closes["thread"] = Count("close_thread")
    /\ closes["process"] = Count("close_process")
    /\ Entered("close_thread") => Before("resume", "close_thread")
    /\ Entered("wait") => Before("close_thread", "wait")
    /\ Entered("close_process") => Before("attach", "close_process")
    /\ (Entered("wall0") \/ Entered("resume"))
          => (Before("close_process", "wall0") /\ Before("close_process", "resume"))

C14_Witness ==
    /\ failed = {}
    /\ Entered("wait")
    /\ resumes = 1
    /\ closes["thread"] = 1 /\ closes["process"] = 1

\* the OS calls named by C16
NamedCalls ==
    {"QueryPerformanceFrequency", "QueryPerformanceCounter", "CreateJobObjectW",
     "CreateIoCompletionPort", "SetInformationJobObject", "CreateProcessW",
     "AssignProcessToJobObject", "QueryInformationJobObject"}

\* C16: when one of the named OS calls has failed, the diagnostic printed
\* names that call.
C16_DiagNamesCall ==
    \A c \in NamedCalls : c \in failed => diag = c

\* C17 (as claimed): the process handle is closed only after the accounting
\* has been read.
C17_ProcessClosedAfterQuery ==
    Entered("close_process") => Before("query", "close_process")

\* C17 (amended): the process handle is closed right after the attach has
\* succeeded, before the start sample and so before the accounting is read;
\* the thread handle is closed right after the resume.
C17_ProcessClosedAfterAttach ==
    /\ Entered("close_process") => Pos("close_process") = Pos("attach") + 1
    /\ Entered("wall0") => Entered("close_process")
    /\ Entered("query") => Before("close_process", "query")
    /\ Entered("close_thread") => Pos("close_thread") = Pos("resume") + 1

C17_Witness ==
    /\ failed = {}
    /\ Entered("query")
    /\ job_times # <<>>
    /\ closes["process"] = 1

\* C18: every call of parse_arg that returns true has taken at least one
\* argument from the iterator.
C18_ParseConsumes ==
    pc = "parse" =>
        LET r == parse_arg(opts, args)
        IN  r.kind = "true" => Len(r.args) < Len(args)

\* what the program prints when it refuses its arguments or shows its version
ParseMessages == {"usage", "version", "invalid option", "option requires an argument"}

\* C19: for an argument list of the documented form, options then command,
\* the command line main builds is the tokens from the first non-option
\* token on, joined by single spaces, and the list is not refused.
C19_CommandLine ==
    (~LaunchAttempted /\ DocParse(argv).kind = "run")
        => /\ cmdline # <<>> => cmdline = Join(DocParse(argv).cmd)
           /\ ~(pc = "exited" /\ diag \in ParseMessages)

\* C20: the program never ends with the launched process still suspended.
C20_NoOrphanSuspended ==
    pc = "exited" => proc[Root] # "suspended"

====
